---- MODULE Spec2Model ----
(***************************************************************************)
(* A model of the reflection-token program (src/.history/src/lib_*.rs):    *)
(* the ReflectionToken ledger (new, transfer) and the process_instruction  *)
(* entrypoint that decodes an instruction, checks the account handles and  *)
(* persists the ledger in the token account's data buffer.                 *)
(*                                                                         *)
(* Two specifications share the variables:                                 *)
(*   LedgerSpec  the ledger object driven through its public methods;      *)
(*   Spec        the entrypoint driven by invocations of the host.         *)
(*                                                                         *)
(* u64 arithmetic is modelled with a reduced word of WordBits bits (TLC's  *)
(* integers are 32 bits wide); the byte layouts keep their 8 and 4 byte    *)
(* positions.  Rust indices are 0-based, TLA+ sequences 1-based: slot i of *)
(* the source is balances[i + 1] here.                                     *)
(***************************************************************************)
EXTENDS Integers, Sequences, FiniteSets

VARIABLES
    overflow_checks,  \* build profile: TRUE = arithmetic overflow panics, FALSE = it wraps
    token,            \* LedgerSpec: the ReflectionToken object
    call,             \* LedgerSpec: the last method call, its arguments and outcome
    ncalls,           \* LedgerSpec: number of calls made
    accounts,         \* Spec: the host's accounts (lamports and data buffer of each)
    invocation,       \* Spec: the last invocation, its inputs and outcome
    ninvocations      \* Spec: number of invocations made

vars == <<overflow_checks, token, call, ncalls, accounts, invocation, ninvocations>>

ledgerVars == <<token, call, ncalls>>

hostVars == <<accounts, invocation, ninvocations>>

\* ------------------------------------------------------------------ bounds

WordBits == 8

MaxSupply == 3

MaxCalls == 2

MaxInvocations == 1

U64Mod == 2 ^ WordBits

BalanceSeeds == {0, 100}

Amounts == {0, 10, 100}

Supplies == 0 .. MaxSupply

Indices == 0 .. (MaxSupply - 1)

\* ------------------------------------------------------------------ helpers

RECURSIVE SumSeq(_)
SumSeq(s) == IF s = <<>> THEN 0 ELSE Head(s) + SumSeq(Tail(s))

\* ------------------------------------------------------------------ u64 arithmetic

\* `x -= y` on a u64: with overflow checks an underflow panics, without them it wraps.
U64Sub(x, y, checks) ==
    IF y > x
    THEN IF checks THEN [panic |-> TRUE, val |-> x]
                   ELSE [panic |-> FALSE, val |-> (x + U64Mod - y) % U64Mod]
    ELSE [panic |-> FALSE, val |-> x - y]

\* `x += y` on a u64: with overflow checks an overflow panics, without them it wraps.
U64Add(x, y, checks) ==
    IF x + y >= U64Mod
    THEN IF checks THEN [panic |-> TRUE, val |-> x]
                   ELSE [panic |-> FALSE, val |-> (x + y) % U64Mod]
    ELSE [panic |-> FALSE, val |-> x + y]

\* ------------------------------------------------------------------ ReflectionToken

\* new with an off-by-one allocation
new_Mutant(total_supply) ==
    [total_supply |-> total_supply, balances |-> [i \in 1 .. (total_supply + 1) |-> 0]]

\* ReflectionToken::new: vec![0; total_supply]
new(total_supply) ==
    [total_supply |-> total_supply, balances |-> [i \in 1 .. total_supply |-> 0]]

\* transfer that pushes the reflection as a new slot instead of crediting slot 0
transfer_Mutant(self, sender_index, recipient_index, amount, checks) ==
    [token |-> [self EXCEPT !.balances = Append(self.balances, amount \div 10)],
     outcome |-> "ok"]

\* transfer that refuses an amount of 0
transfer_NonZeroMutant(self, sender_index, recipient_index, amount, checks) ==
    IF amount = 0 THEN [token |-> self, outcome |-> "panic"]
    ELSE
        LET reflection_amount == amount \div 10
            fee == amount - reflection_amount
            n == Len(self.balances)
        IN  IF sender_index >= n THEN [token |-> self, outcome |-> "panic"]
            ELSE
            LET d == U64Sub(self.balances[sender_index + 1], amount, checks)
                b1 == [self.balances EXCEPT ![sender_index + 1] = d.val]
            IN  IF d.panic THEN [token |-> self, outcome |-> "panic"]
                ELSE IF recipient_index >= n
                THEN [token |-> [self EXCEPT !.balances = b1], outcome |-> "panic"]
                ELSE
                LET c == U64Add(b1[recipient_index + 1], amount - fee, checks)
                    b2 == [b1 EXCEPT ![recipient_index + 1] = c.val]
                IN  IF c.panic
                    THEN [token |-> [self EXCEPT !.balances = b1], outcome |-> "panic"]
                    ELSE
                    LET e == U64Add(b2[1], reflection_amount, checks)
                        b3 == [b2 EXCEPT ![1] = e.val]
                    IN  IF e.panic
                        THEN [token |-> [self EXCEPT !.balances = b2], outcome |-> "panic"]
                        ELSE [token |-> [self EXCEPT !.balances = b3], outcome |-> "ok"]

\* transfer that returns at once when the sender is the recipient
transfer_SkipSelfMutant(self, sender_index, recipient_index, amount, checks) ==
    IF sender_index = recipient_index /\ sender_index < Len(self.balances)
    THEN [token |-> self, outcome |-> "ok"]
    ELSE
        LET reflection_amount == amount \div 10
            fee == amount - reflection_amount
            n == Len(self.balances)
        IN  IF sender_index >= n THEN [token |-> self, outcome |-> "panic"]
            ELSE
            LET d == U64Sub(self.balances[sender_index + 1], amount, checks)
                b1 == [self.balances EXCEPT ![sender_index + 1] = d.val]
            IN  IF d.panic THEN [token |-> self, outcome |-> "panic"]
                ELSE IF recipient_index >= n
                THEN [token |-> [self EXCEPT !.balances = b1], outcome |-> "panic"]
                ELSE
                LET c == U64Add(b1[recipient_index + 1], amount - fee, checks)
                    b2 == [b1 EXCEPT ![recipient_index + 1] = c.val]
                IN  IF c.panic
                    THEN [token |-> [self EXCEPT !.balances = b1], outcome |-> "panic"]
                    ELSE
                    LET e == U64Add(b2[1], reflection_amount, checks)
                        b3 == [b2 EXCEPT ![1] = e.val]
                    IN  IF e.panic
                        THEN [token |-> [self EXCEPT !.balances = b2], outcome |-> "panic"]
                        ELSE [token |-> [self EXCEPT !.balances = b3], outcome |-> "ok"]

\* transfer that reflects to the last slot instead of slot 0
transfer_LastSlotMutant(self, sender_index, recipient_index, amount, checks) ==
    LET reflection_amount == amount \div 10
        fee == amount - reflection_amount
        n == Len(self.balances)
    IN  IF sender_index >= n THEN [token |-> self, outcome |-> "panic"]
        ELSE
        LET d == U64Sub(self.balances[sender_index + 1], amount, checks)
            b1 == [self.balances EXCEPT ![sender_index + 1] = d.val]
        IN  IF d.panic THEN [token |-> self, outcome |-> "panic"]
            ELSE IF recipient_index >= n
            THEN [token |-> [self EXCEPT !.balances = b1], outcome |-> "panic"]
            ELSE
            LET c == U64Add(b1[recipient_index + 1], amount - fee, checks)
                b2 == [b1 EXCEPT ![recipient_index + 1] = c.val]
            IN  IF c.panic
                THEN [token |-> [self EXCEPT !.balances = b1], outcome |-> "panic"]
                ELSE
                LET e == U64Add(b2[n], reflection_amount, checks)
                    b3 == [b2 EXCEPT ![n] = e.val]
                IN  IF e.panic
                    THEN [token |-> [self EXCEPT !.balances = b2], outcome |-> "panic"]
                    ELSE [token |-> [self EXCEPT !.balances = b3], outcome |-> "ok"]

\* ReflectionToken::transfer.  The method returns (): its outcome is "ok" or a
\* panic (index out of bounds, or arithmetic overflow under overflow checks); a
\* panic leaves the adjustments made before it in the object.
transfer(self, sender_index, recipient_index, amount, checks) ==
    LET reflection_amount == amount \div 10
        fee == amount - reflection_amount
        n == Len(self.balances)
    IN  IF sender_index >= n THEN [token |-> self, outcome |-> "panic"]
        ELSE
        LET d == U64Sub(self.balances[sender_index + 1], amount, checks)
            b1 == [self.balances EXCEPT ![sender_index + 1] = d.val]
        IN  IF d.panic THEN [token |-> self, outcome |-> "panic"]
            ELSE IF recipient_index >= n
            THEN [token |-> [self EXCEPT !.balances = b1], outcome |-> "panic"]
            ELSE
            LET c == U64Add(b1[recipient_index + 1], amount - fee, checks)
                b2 == [b1 EXCEPT ![recipient_index + 1] = c.val]
            IN  IF c.panic
                THEN [token |-> [self EXCEPT !.balances = b1], outcome |-> "panic"]
                ELSE
                LET e == U64Add(b2[1], reflection_amount, checks)
                    b3 == [b2 EXCEPT ![1] = e.val]
                IN  IF e.panic
                    THEN [token |-> [self EXCEPT !.balances = b2], outcome |-> "panic"]
                    ELSE [token |-> [self EXCEPT !.balances = b3], outcome |-> "ok"]

\* ------------------------------------------------------------------ bytes

Zeros(n) == [i \in 1 .. n |-> 0]

\* v.to_le_bytes() cut to n bytes
RECURSIVE ToLe(_, _)
ToLe(v, n) == IF n = 0 THEN <<>> ELSE <<v % 256>> \o ToLe(v \div 256, n - 1)

\* from_le_bytes
RECURSIVE FromLe(_)
FromLe(bs) == IF bs = <<>> THEN 0 ELSE Head(bs) + 256 * FromLe(Tail(bs))

RECURSIVE Concat(_)
Concat(ss) == IF ss = <<>> THEN <<>> ELSE Head(ss) \o Concat(Tail(ss))

\* BorshSerialize of ReflectionToken: total_supply as 8 bytes, the length of
\* balances as 4 bytes, then each balance as 8 bytes, all little-endian.
Serialize(t) ==
    ToLe(t.total_supply, 8) \o ToLe(Len(t.balances), 4)
        \o Concat([i \in 1 .. Len(t.balances) |-> ToLe(t.balances[i], 8)])

\* ReflectionToken::try_from_slice: fails on a buffer that ends early and on one
\* with bytes left over after the record.
try_from_slice(data) ==
    IF Len(data) < 12 THEN [ok |-> FALSE, value |-> new(0)]
    ELSE
    LET n == FromLe(SubSeq(data, 9, 12))
    IN  IF Len(data) # 12 + 8 * n THEN [ok |-> FALSE, value |-> new(0)]
        ELSE [ok |-> TRUE,
              value |-> [total_supply |-> FromLe(SubSeq(data, 1, 8)) % U64Mod,
                         balances |-> [i \in 1 .. n |->
                             FromLe(SubSeq(data, 12 + 8 * (i - 1) + 1, 12 + 8 * i))
                                 % U64Mod]]]

\* serialize(&mut buffer): io::Write for a byte slice copies what fits and fails
\* (WriteZero) when the record is longer than the buffer; bytes of the buffer
\* past the record keep their content.
BufWrite(buf, bytes) ==
    IF Len(bytes) <= Len(buf)
    THEN [ok |-> TRUE, data |-> bytes \o SubSeq(buf, Len(bytes) + 1, Len(buf))]
    ELSE [ok |-> FALSE, data |-> SubSeq(bytes, 1, Len(buf))]

\* bs[k..].try_into().unwrap() into [u8; 8], then from_le_bytes: the slice panics
\* when k is past the end, the unwrap when the rest is not exactly 8 bytes.
ReadLeAt(bs, k) ==
    IF k > Len(bs) THEN [panic |-> TRUE, val |-> 0]
    ELSE
    LET rest == SubSeq(bs, k + 1, Len(bs))
    IN  IF Len(rest) # 8 THEN [panic |-> TRUE, val |-> 0]
        ELSE [panic |-> FALSE, val |-> FromLe(rest)]

\* ------------------------------------------------------------------ process_instruction

\* b"initialize"
TagInitialize == <<105, 110, 105, 116, 105, 97, 108, 105, 122, 101>>

\* b"transfer"
TagTransfer == <<116, 114, 97, 110, 115, 102, 101, 114>>

\* rent.minimum_balance(ReflectionToken::get_packed_len()), scaled
required_lamports == 2

\* the match without its default arm: what is not b"initialize" is a transfer
MatchTag_Mutant(instruction_data) ==
    IF instruction_data = TagInitialize THEN "initialize" ELSE "transfer"

\* match instruction_data { b"initialize" => .., b"transfer" => .., _ => .. }: a
\* byte-string pattern matches a slice equal to it, byte for byte and in length.
MatchTag(instruction_data) ==
    IF instruction_data = TagInitialize THEN "initialize"
    ELSE IF instruction_data = TagTransfer THEN "transfer"
    ELSE "other"

\* the arm with the buffer reset to an empty ledger before the funding error
InitializeBranch_Mutant(token_account, instruction_data) ==
    IF token_account.lamports < required_lamports
    THEN [outcome |-> "InsufficientFunds",
          data |-> BufWrite(token_account.data, Serialize(new(0))).data]
    ELSE
    LET s == ReadLeAt(instruction_data, 8)
    IN  IF s.panic THEN [outcome |-> "panic", data |-> token_account.data]
        ELSE
        LET w == BufWrite(token_account.data, Serialize(new(s.val % U64Mod)))
        IN  [outcome |-> IF w.ok THEN "Ok" ELSE "BorshIoError", data |-> w.data]

\* The b"initialize" arm.  Returns the outcome and the token account's buffer
\* as the program leaves it.
InitializeBranch(token_account, instruction_data) ==
    IF token_account.lamports < required_lamports
    THEN [outcome |-> "InsufficientFunds", data |-> token_account.data]
    ELSE
    LET s == ReadLeAt(instruction_data, 8)
    IN  IF s.panic THEN [outcome |-> "panic", data |-> token_account.data]
        ELSE
        LET w == BufWrite(token_account.data, Serialize(new(s.val % U64Mod)))
        IN  [outcome |-> IF w.ok THEN "Ok" ELSE "BorshIoError", data |-> w.data]

\* The b"transfer" arm.  accts is the handle list as the iterator sees it: the
\* token account first, then the sender, then the recipient.
TransferBranch(token_data, accts, instruction_data, checks) ==
    LET token_account == accts[1]
        same(o) == [outcome |-> o, data |-> token_account.data]
    IN  IF Len(accts) < 3 THEN same("NotEnoughAccountKeys")
        ELSE
        LET sender_info == accts[2]
            recipient_info == accts[3]
            sender_index == ReadLeAt(sender_info.data, 8)
            recipient_index == ReadLeAt(recipient_info.data, 8)
            amount == ReadLeAt(instruction_data, 16)
        IN  IF sender_index.panic \/ recipient_index.panic \/ amount.panic
            THEN same("panic")
            ELSE IF /\ sender_info.is_signer /\ sender_info.is_writable
                    /\ recipient_info.is_writable
                    /\ sender_index.val < Len(token_data.balances)
                    /\ recipient_index.val < Len(token_data.balances)
            THEN LET r == transfer(token_data, sender_index.val, recipient_index.val,
                                   amount.val % U64Mod, checks)
                     w == BufWrite(token_account.data, Serialize(r.token))
                 IN  IF r.outcome = "panic" THEN same("panic")
                     ELSE [outcome |-> IF w.ok THEN "Ok" ELSE "BorshIoError",
                           data |-> w.data]
            ELSE same("InvalidArgument")

\* process_instruction.  accounts_iter.skip(1) builds an adaptor that is never
\* advanced, so the first next_account_info yields the first handle of the list.
process_instruction(accts, instruction_data, checks) ==
    IF Len(accts) < 1 THEN [outcome |-> "NotEnoughAccountKeys", data |-> <<>>]
    ELSE
    LET token_account == accts[1]
        token_data == try_from_slice(token_account.data)
        tag == MatchTag(instruction_data)
    IN  IF ~token_data.ok
        THEN [outcome |-> "BorshIoError", data |-> token_account.data]
        ELSE IF tag = "initialize"
        THEN InitializeBranch(token_account, instruction_data)
        ELSE IF tag = "transfer"
        THEN TransferBranch(token_data.value, accts, instruction_data, checks)
        ELSE [outcome |-> "InvalidInstructionData", data |-> token_account.data]

\* ------------------------------------------------------------------ LedgerSpec

NoCall ==
    [op |-> "none", total_supply |-> 0, sender_index |-> 0, recipient_index |-> 0,
     amount |-> 0, pre |-> new(0), outcome |-> "none"]

\* A ledger as a caller holds it: constructed, then funded through the public
\* balances field.
SeedLedgers ==
    UNION { { [total_supply |-> s, balances |-> b] : b \in [1 .. s -> BalanceSeeds] }
            : s \in Supplies }

NoAccounts == <<>>

NoInvocation ==
    [op |-> "none", handles |-> <<>>, instruction_data |-> <<>>, outcome |-> "none",
     before |-> <<>>, buffer |-> <<>>]

LedgerInit ==
    /\ overflow_checks \in BOOLEAN
    /\ token \in SeedLedgers
    /\ call = NoCall
    /\ ncalls = 0
    /\ accounts = NoAccounts
    /\ invocation = NoInvocation
    /\ ninvocations = 0

Construct(total_supply) ==
    /\ ncalls < MaxCalls
    /\ token' = new(total_supply)
    /\ call' = [NoCall EXCEPT !.op = "new", !.total_supply = total_supply,
                              !.pre = token, !.outcome = "ok"]
    /\ ncalls' = ncalls + 1
    /\ UNCHANGED <<overflow_checks, hostVars>>

Transfer(sender_index, recipient_index, amount) ==
    /\ ncalls < MaxCalls
    /\ LET r == transfer(token, sender_index, recipient_index, amount, overflow_checks)
       IN  /\ token' = r.token
           /\ call' = [NoCall EXCEPT !.op = "transfer", !.sender_index = sender_index,
                                     !.recipient_index = recipient_index,
                                     !.amount = amount, !.pre = token,
                                     !.outcome = r.outcome]
    /\ ncalls' = ncalls + 1
    /\ UNCHANGED <<overflow_checks, hostVars>>

LedgerNext ==
    \/ \E s \in Supplies : Construct(s)
    \/ \E si \in Indices, ri \in Indices, a \in Amounts : Transfer(si, ri, a)

LedgerSpec == LedgerInit /\ [][LedgerNext]_vars

\* ------------------------------------------------------------------ Spec

AccountKeys == {"program", "storage", "sender", "recipient"}

\* The data a sender or recipient account carries: 8 bytes, then its index.
IdentityRecord(i) == Zeros(8) \o ToLe(i, 8)

\* The sender's and the recipient's buffers: a record with an index, or nothing.
SenderInits == { IdentityRecord(i) : i \in {0, 1, 2} } \cup { <<>> }

RecipientInits == { IdentityRecord(i) : i \in {0, 2} } \cup { <<>> }

\* What the token account's buffer may hold when the program is entered: nothing,
\* a zero-filled allocation, or a serialized ledger.  The program does not check
\* who owns the account it is handed, so the content is the host's.
StorageInits ==
    { <<>>, Zeros(20) }
        \cup { Serialize(l) : l \in { new(0),
                                       [total_supply |-> 3, balances |-> <<0, 100, 0>>],
                                       [total_supply |-> 2, balances |-> <<100, 10>>] } }

StorageLamports == { required_lamports - 1, required_lamports }

\* The program account holds its executable, not a ledger.
ProgramData == <<127, 69, 76, 70>>

Handle(key, is_signer, is_writable) ==
    [key |-> key, is_signer |-> is_signer, is_writable |-> is_writable]

\* The handle lists a client sends: the layout the code reads (token account
\* first) and the layout of the interface description (program identity first).
HandleLists ==
    { <<>>, << Handle("storage", FALSE, TRUE) >> }
        \cup { << Handle("storage", FALSE, TRUE), Handle("sender", sg, sw),
                  Handle("recipient", FALSE, rw) >> : sg \in BOOLEAN, sw \in BOOLEAN,
                                                       rw \in BOOLEAN }
        \cup { << Handle("program", FALSE, FALSE), Handle("storage", FALSE, TRUE),
                  Handle("sender", TRUE, TRUE), Handle("recipient", FALSE, TRUE) >> }

\* The instruction buffer of the wire format: the tag at the start, the total
\* supply at bytes 8..16 (the tag's last two bytes are its low bytes).
WireInitialize == TagInitialize \o Zeros(6)

\* The instruction buffer of the wire format: the tag, the amount at bytes 16..24.
WireTransfer(a) == TagTransfer \o Zeros(8) \o ToLe(a, 8)

Instructions ==
    { TagInitialize, WireInitialize, TagTransfer, <<>>, <<109, 105, 110, 116>> }
        \cup { WireTransfer(a) : a \in Amounts }

\* The AccountInfo list the host builds from the handles.
AccountInfos(handles) ==
    [i \in 1 .. Len(handles) |->
        [key |-> handles[i].key, is_signer |-> handles[i].is_signer,
         is_writable |-> handles[i].is_writable,
         lamports |-> accounts[handles[i].key].lamports,
         data |-> accounts[handles[i].key].data]]

Init ==
    /\ overflow_checks \in BOOLEAN
    /\ token = new(0)
    /\ call = NoCall
    /\ ncalls = 0
    /\ \E sd \in StorageInits, sl \in StorageLamports,
          sn \in SenderInits, rc \in RecipientInits :
          accounts = [k \in AccountKeys |->
                         CASE k = "program" -> [lamports |-> required_lamports,
                                                data |-> ProgramData]
                           [] k = "storage" -> [lamports |-> sl, data |-> sd]
                           [] k = "sender" -> [lamports |-> 0, data |-> sn]
                           [] OTHER -> [lamports |-> 0, data |-> rc]]
    /\ invocation = NoInvocation
    /\ ninvocations = 0

\* One invocation, run to completion.  The host keeps the token account's buffer
\* as the program left it when the program returns Ok, and drops it otherwise.
Invoke(handles, instruction_data) ==
    /\ ninvocations < MaxInvocations
    /\ LET r == process_instruction(AccountInfos(handles), instruction_data,
                                    overflow_checks)
           before == IF handles = <<>> THEN <<>> ELSE accounts[handles[1].key].data
       IN  /\ accounts' = IF r.outcome = "Ok"
                          THEN [accounts EXCEPT ![handles[1].key].data = r.data]
                          ELSE accounts
           /\ invocation' = [op |-> "invoke", handles |-> handles,
                             instruction_data |-> instruction_data,
                             outcome |-> r.outcome, before |-> before,
                             buffer |-> r.data]
    /\ ninvocations' = ninvocations + 1
    /\ UNCHANGED <<overflow_checks, ledgerVars>>

Next == \E h \in HandleLists, d \in Instructions : Invoke(h, d)

Spec == Init /\ [][Next]_vars

\* ------------------------------------------------------------------ claims: the ledger

InRange(i) == i < Len(call.pre.balances)

PreBalance(i) == call.pre.balances[i + 1]

PostBalance(i) == token.balances[i + 1]

\* C1: a transfer between two distinct slots other than slot 0, of an amount the
\* sender holds, debits the sender by the amount, credits the recipient with the
\* amount less its tenth, and credits slot 0 with the tenth.
C1_TransferPostState ==
    ( /\ call.op = "transfer"
      /\ call.sender_index # call.recipient_index
      /\ call.sender_index # 0
      /\ call.recipient_index # 0
      /\ InRange(call.sender_index)
      /\ InRange(call.recipient_index)
      /\ call.amount <= PreBalance(call.sender_index) )
    => /\ call.outcome = "ok"
       /\ PostBalance(call.sender_index) = PreBalance(call.sender_index) - call.amount
       /\ PostBalance(call.recipient_index)
              = PreBalance(call.recipient_index) + (call.amount - call.amount \div 10)
       /\ PostBalance(0) = PreBalance(0) + call.amount \div 10

\* C2: a successful transfer with in-range indices, slot 0 among them or not,
\* leaves the sum of all balances as it was.
C2_Conservation ==
    ( /\ call.op = "transfer"
      /\ call.outcome = "ok"
      /\ InRange(call.sender_index)
      /\ InRange(call.recipient_index)
      /\ call.amount <= PreBalance(call.sender_index) )
    => SumSeq(token.balances) = SumSeq(call.pre.balances)

\* C3: a transfer of more than the sender holds fails with InsufficientBalance
\* and leaves every balance as it was.
C3_InsufficientBalance ==
    ( /\ call.op = "transfer"
      /\ InRange(call.sender_index)
      /\ InRange(call.recipient_index)
      /\ call.amount > PreBalance(call.sender_index) )
    => /\ call.outcome = "InsufficientBalance"
       /\ token = call.pre

\* C6: the ledger holds as many balances as its total supply, after any sequence
\* of constructions and of transfers that return or panic.
C6_LengthIsSupply == Len(token.balances) = token.total_supply

C6_Witness ==
    /\ ncalls >= 2
    /\ call.op = "transfer"
    /\ call.outcome = "ok"
    /\ call.amount > 0
    /\ token.balances # call.pre.balances
    /\ token.total_supply = 3

\* C8: new(total_supply) returns a ledger with that total supply and exactly that
\* many balances, all 0; a total supply of 0 gives the empty ledger.
C8_NewLedger ==
    call.op = "new"
    => /\ call.outcome = "ok"
       /\ token.total_supply = call.total_supply
       /\ Len(token.balances) = call.total_supply
       /\ \A i \in 1 .. Len(token.balances) : token.balances[i] = 0

C8_Witness ==
    /\ call.op = "new"
    /\ call.total_supply = 0
    /\ call.pre.balances # <<>>
    /\ token = [total_supply |-> 0, balances |-> <<>>]

\* ------------------------------------------------------------------ claims: the entrypoint

HasPrefix(bs, tag) == Len(bs) >= Len(tag) /\ SubSeq(bs, 1, Len(tag)) = tag

\* The handle list starts with the storage account, as the code reads it.
StorageFirst == invocation.handles # <<>> /\ invocation.handles[1].key = "storage"

\* C4: an invocation that fails leaves the token account's buffer, and the
\* bytes the host keeps for it, as they were on entry.
C4_FailureAtomicity ==
    (invocation.op = "invoke" /\ invocation.outcome # "Ok")
    => /\ invocation.buffer = invocation.before
       /\ invocation.handles # <<>>
            => accounts[invocation.handles[1].key].data = invocation.before

C4_Witness ==
    /\ invocation.op = "invoke"
    /\ invocation.outcome = "InsufficientFunds"
    /\ StorageFirst
    /\ invocation.before = Serialize([total_supply |-> 3, balances |-> <<0, 100, 0>>])
    /\ accounts["storage"].data = invocation.before

TransferPreconditions ==
    LET h == invocation.handles
        t == try_from_slice(invocation.before).value
    IN  /\ h[2].is_signer /\ h[2].is_writable /\ h[3].is_writable
        /\ FromLe(SubSeq(accounts["sender"].data, 9, 16)) < Len(t.balances)
        /\ FromLe(SubSeq(accounts["recipient"].data, 9, 16)) < Len(t.balances)

\* C5: a Transfer invocation writes the ledger only if the sender signs and is
\* writable, the recipient is writable and both indices are in range; with any
\* of these false it fails with InvalidArgument and writes nothing.
C5_TransferPreconditions ==
    ( /\ invocation.op = "invoke"
      /\ HasPrefix(invocation.instruction_data, TagTransfer)
      /\ StorageFirst
      /\ Len(invocation.handles) = 3
      /\ try_from_slice(invocation.before).ok
      /\ Len(accounts["sender"].data) = 16
      /\ Len(accounts["recipient"].data) = 16 )
    => /\ invocation.outcome = "Ok" => TransferPreconditions
       /\ ~TransferPreconditions
            => /\ invocation.outcome = "InvalidArgument"
               /\ invocation.buffer = invocation.before

\* C9: an Initialize invocation on a storage account that holds less than the
\* rent-exempt minimum fails with InsufficientFunds and writes nothing.
C9_UnderfundedInitialize ==
    ( /\ invocation.op = "invoke"
      /\ HasPrefix(invocation.instruction_data, TagInitialize)
      /\ StorageFirst
      /\ accounts["storage"].lamports < required_lamports )
    => /\ invocation.outcome = "InsufficientFunds"
       /\ invocation.buffer = invocation.before
       /\ accounts["storage"].data = invocation.before

\* C10: an Initialize request in the wire format (the tag, the total supply s at
\* bytes 8..16) on a funded storage account succeeds and leaves a fresh ledger
\* of total supply s, with s balances of 0, in the storage account.
C10_WireInitialize ==
    ( /\ invocation.op = "invoke"
      /\ invocation.instruction_data = WireInitialize
      /\ StorageFirst
      /\ try_from_slice(invocation.before).ok
      /\ accounts["storage"].lamports >= required_lamports )
    => /\ invocation.outcome = "Ok"
       /\ LET s == FromLe(SubSeq(invocation.instruction_data, 9, 16))
              p == try_from_slice(accounts["storage"].data)
          IN  /\ p.ok
              /\ p.value.total_supply = s % U64Mod
              /\ Len(p.value.balances) = s
              /\ \A i \in 1 .. s : p.value.balances[i] = 0

\* The indices the sender's and the recipient's records carry.
SenderIndex == FromLe(SubSeq(accounts["sender"].data, 9, 16))

RecipientIndex == FromLe(SubSeq(accounts["recipient"].data, 9, 16))

\* C11: a Transfer request in the wire format (the tag, the amount a at bytes
\* 16..24), with every capability and bounds precondition holding and a within
\* the sender's balance, succeeds and leaves in the storage account the prior
\* ledger with transfer(sender_index, recipient_index, a) applied, the indices
\* being those of the sender's and the recipient's account data.
C11_WireTransfer ==
    ( /\ invocation.op = "invoke"
      /\ \E a \in Amounts : invocation.instruction_data = WireTransfer(a)
      /\ StorageFirst
      /\ Len(invocation.handles) = 3
      /\ try_from_slice(invocation.before).ok
      /\ Len(accounts["sender"].data) = 16
      /\ Len(accounts["recipient"].data) = 16
      /\ TransferPreconditions
      /\ FromLe(SubSeq(invocation.instruction_data, 17, 24))
             <= try_from_slice(invocation.before).value.balances[SenderIndex + 1] )
    => /\ invocation.outcome = "Ok"
       /\ LET a == FromLe(SubSeq(invocation.instruction_data, 17, 24))
              prior == try_from_slice(invocation.before).value
              p == try_from_slice(accounts["storage"].data)
          IN  /\ p.ok
              /\ p.value = transfer(prior, SenderIndex, RecipientIndex, a,
                                    overflow_checks).token

\* A request whose instruction buffer, sender buffer or recipient buffer is too
\* short for the field read from it.
MalformedRequest ==
    \/ /\ HasPrefix(invocation.instruction_data, TagInitialize)
       /\ Len(invocation.instruction_data) < 16
       /\ accounts["storage"].lamports >= required_lamports
    \/ /\ HasPrefix(invocation.instruction_data, TagTransfer)
       /\ Len(invocation.handles) = 3
       /\ \/ Len(invocation.instruction_data) < 24
          \/ Len(accounts["sender"].data) < 16
          \/ Len(accounts["recipient"].data) < 16

\* C12: an invocation whose instruction, sender or recipient buffer is too short
\* for the field decoded from it returns a typed failure; it does not panic.
C12_MalformedInput ==
    ( /\ invocation.op = "invoke"
      /\ StorageFirst
      /\ try_from_slice(invocation.before).ok
      /\ MalformedRequest )
    => invocation.outcome \notin {"panic", "Ok"}

\* The instruction buffer starts with neither tag.
UnknownTag ==
    /\ ~HasPrefix(invocation.instruction_data, TagInitialize)
    /\ ~HasPrefix(invocation.instruction_data, TagTransfer)

TokenBufferKept ==
    /\ invocation.buffer = invocation.before
    /\ invocation.handles # <<>>
         => accounts[invocation.handles[1].key].data = invocation.before

C14_ZeroAmountNoOp ==
    ( /\ call.op = "transfer"
      /\ call.amount = 0
      /\ InRange(call.sender_index)
      /\ InRange(call.recipient_index) )
    => /\ call.outcome = "ok"
       /\ token = call.pre

C14_Witness ==
    /\ call.op = "transfer"
    /\ call.amount = 0
    /\ call.sender_index # call.recipient_index
    /\ InRange(call.sender_index)
    /\ InRange(call.recipient_index)
    /\ PreBalance(call.sender_index) = 0
    /\ PreBalance(call.recipient_index) = 100
    /\ call.outcome = "ok"
    /\ token = call.pre

SelfTransferAtZero ==
    /\ call.op = "transfer"
    /\ call.sender_index = 0
    /\ call.recipient_index = 0
    /\ InRange(0)
    /\ call.amount > 0
    /\ call.amount <= PreBalance(0)

Touched == {call.sender_index, call.recipient_index, 0}

\* C18: a successful transfer leaves total_supply, the number of balances and
\* every balance other than the sender's, the recipient's and slot 0 unchanged.
C18_TransferFrame ==
    (call.op = "transfer" /\ call.outcome = "ok")
    => /\ token.total_supply = call.pre.total_supply
       /\ Len(token.balances) = Len(call.pre.balances)
       /\ \A i \in 0 .. (Len(call.pre.balances) - 1) :
              i \notin Touched => PostBalance(i) = PreBalance(i)

C18_Witness ==
    /\ call.op = "transfer"
    /\ call.outcome = "ok"
    /\ call.amount >= 10
    /\ call.amount <= PreBalance(call.sender_index)
    /\ token.balances # call.pre.balances
    /\ \E i \in 0 .. (Len(call.pre.balances) - 1) :
           /\ i \notin Touched
           /\ PreBalance(i) = 100
           /\ PostBalance(i) = 100

\* ------------------------------------------------------------------ claims: the entrypoint, continued

\* C16: the first handle is skipped and the ledger is read from the second: with
\* the program's own account first, the invocation fails to decode the ledger
\* exactly when the second handle's buffer holds none.
C16_FirstHandleSkipped ==
    ( /\ invocation.op = "invoke"
      /\ Len(invocation.handles) >= 2
      /\ invocation.handles[1].key = "program" )
    => ( invocation.outcome = "BorshIoError"
           <=> ~try_from_slice(accounts[invocation.handles[2].key].data).ok )

\* The outcome of the last invocation had the token account held the given
\* buffer on entry.
OutcomeWithPrior(data) ==
    LET infos == AccountInfos(invocation.handles)
    IN  process_instruction([infos EXCEPT ![1].data = data],
                            invocation.instruction_data, overflow_checks).outcome

\* C17: the outcome of a funded Initialize invocation does not depend on what the
\* storage buffer held before: it is the outcome had the buffer held a ledger.
C17_PriorContentIrrelevant ==
    ( /\ invocation.op = "invoke"
      /\ HasPrefix(invocation.instruction_data, TagInitialize)
      /\ StorageFirst
      /\ accounts["storage"].lamports >= required_lamports )
    => invocation.outcome = OutcomeWithPrior(Serialize(new(0)))

====
